---- MODULE Spec2Model ----
(***************************************************************************)
(* Model of aurman's main_solver: sanitize_user_input and process.         *)
(*                                                                         *)
(* A package name is a one-lexeme sequence (<<"a">>); a user token is a    *)
(* lexeme sequence, either a bare name or <<name, comparator, version>>.   *)
(* A version string is abstracted to its rank in the total order of the    *)
(* version comparison.  A System is a record holding all_packages_dict (an *)
(* insertion-ordered sequence of entities with distinct names, as a Python *)
(* dict) and the provides index.  Systems live in a heap so that an edit   *)
(* in place and the construction of a new instance are different things.   *)
(*                                                                         *)
(* process is split into the steps between which its state can be         *)
(* observed; an option of pacman_args is drawn in the step that first uses *)
(* it.  The classes System and Package and aurman.utilities are not part   *)
(* of main_solver.py; their operators follow the design document.          *)
(***************************************************************************)
EXTENDS Integers, Sequences, FiniteSets, TLC

VARIABLES
  pc,                           \* position of process
  exit_code,                    \* -1 while running, 0 after print, 1 after sys.exit(1)
  packages_of_user_names,       \* set of user tokens (targets, duplicates removed)
  sysupgrade, needed, only_unfulfilled_deps, aur, repo,
  not_remove,                   \* set of holdpkg tokens
  ignore_opt, ignoregroup_opt,  \* --ignore names, --ignoregroup groups
  heap,                         \* sequence of System objects; index = identity
  installed_system,             \* heap index, 0 = not built yet
  upstream_system,              \* heap index, 0 = not built yet
  sanitized_names,
  sanitized_not_to_be_removed,
  ignored_packages_names,
  concrete_packages_to_install, \* sequence of entities
  upstream_dict_before_ignore,  \* all_packages_dict of upstream when ignore handling starts
  ignore_invoked,               \* get_ignored_packages_names has been called
  solver_call,                  \* <<>> or <<[targets, base, universe]>>
  validator_call,               \* <<>> or <<[targets]>>
  printed,                      \* the solution list has been printed
  raised,                       \* "" or the exception that ended the run
  su_input, su_system, su_out   \* a stand-alone call of sanitize_user_input

vars == <<pc, exit_code, packages_of_user_names, sysupgrade, needed,
          only_unfulfilled_deps, aur, repo, not_remove, ignore_opt, ignoregroup_opt,
          heap, installed_system, upstream_system, sanitized_names,
          sanitized_not_to_be_removed, ignored_packages_names,
          concrete_packages_to_install, upstream_dict_before_ignore, ignore_invoked,
          solver_call, validator_call, printed, raised, su_input, su_system, su_out>>

procVars == <<pc, exit_code, packages_of_user_names, sysupgrade, needed,
          only_unfulfilled_deps, aur, repo, not_remove, ignore_opt, ignoregroup_opt,
          heap, installed_system, upstream_system, sanitized_names,
          sanitized_not_to_be_removed, ignored_packages_names,
          concrete_packages_to_install, upstream_dict_before_ignore, ignore_invoked,
          solver_call, validator_call, printed, raised>>

----------------------------------------------------------------------------
(* Bounds *)

MaxVersion == 2
MaxTargets == 2
MaxInput == 2
MaxHold == 1

Versions == 1..MaxVersion

----------------------------------------------------------------------------
(* Names, tokens, entities *)

PkgA == <<"a">>        \* a community-catalog package name
PkgR == <<"r">>        \* an official-catalog package name
CapV == <<"v">>        \* a virtual capability
CapNames == {PkgA, PkgR, CapV}

Comparators == {"<", "<=", "=", ">=", ">"}

\* the version lexemes of user tokens, in ascending order
VersionLexemes == <<"1", "2", "3", "4">>

\* the rank of a version lexeme in the order of the version comparison
ParseVersion(lexeme) == CHOOSE v \in 1..Len(VersionLexemes) : VersionLexemes[v] = lexeme

\* aurman.utilities.strip_versioning_from_name: the token up to its first comparator
strip_versioning_from_name(name) ==
  LET cut == {i \in 1..Len(name) : name[i] \in Comparators}
  IN  IF cut = {} THEN name
      ELSE SubSeq(name, 1, (CHOOSE i \in cut : \A j \in cut : i <= j) - 1)

\* aurman.utilities.version_comparison
version_comparison(v1, op, v2) ==
  CASE op = "<"  -> v1 < v2
    [] op = "<=" -> v1 <= v2
    [] op = "="  -> v1 = v2
    [] op = ">=" -> v1 >= v2
    [] op = ">"  -> v1 > v2

\* Package.__eq__: entities are compared by name and version
PackageEq(p, q) == p.name = q.name /\ p.version = q.version

PackageIn(p, list) == \E i \in 1..Len(list) : PackageEq(p, list[i])

\* whether an entity satisfies a token: bare tokens match any version
Satisfies(entity, name) ==
  LET cut == {i \in 1..Len(name) : name[i] \in Comparators}
  IN  IF cut = {} THEN TRUE
      ELSE LET i == CHOOSE k \in cut : \A j \in cut : k <= j
           IN  version_comparison(entity.version, name[i], ParseVersion(name[i + 1]))

----------------------------------------------------------------------------
(* System: all_packages_dict and the provides index *)

HasKey(dict, name) == \E i \in 1..Len(dict) : dict[i].name = name

DictGet(dict, name) == dict[CHOOSE i \in 1..Len(dict) : dict[i].name = name]

\* dict[name] = entity: replaces in place, or appends a new key
DictSet(dict, entity) ==
  IF HasKey(dict, entity.name)
  THEN [i \in 1..Len(dict) |-> IF dict[i].name = entity.name THEN entity ELSE dict[i]]
  ELSE Append(dict, entity)

\* del dict[name]
DictDel(dict, name) == SelectSeq(dict, LAMBDA e : e.name # name)

DictKeys(dict) == {dict[i].name : i \in 1..Len(dict)}

RECURSIVE DictOf(_)
DictOf(entities) ==
  IF entities = <<>> THEN <<>>
  ELSE DictSet(DictOf(SubSeq(entities, 1, Len(entities) - 1)), entities[Len(entities)])

Provides(entity) == entity.provides \cup {entity.name}

IndexOf(entities) ==
  [c \in CapNames |-> SelectSeq(entities, LAMBDA e : c \in Provides(e))]

\* System(packages)
System(entities) ==
  [all_packages_dict |-> DictOf(entities), provides_index |-> IndexOf(entities)]

\* System.provided_by
provided_by(system, name) ==
  SelectSeq(system.provides_index[strip_versioning_from_name(name)],
            LAMBDA e : Satisfies(e, name))

aur_packages_list(system) ==
  SelectSeq(system.all_packages_dict, LAMBDA e : e.variant = "SourceBuild")

devel_packages_list(system) ==
  SelectSeq(system.all_packages_dict, LAMBDA e : e.variant = "SourceBuildDevel")

----------------------------------------------------------------------------
(* sanitize_user_input *)

Exited == [status |-> "exit", names |-> {}]

\* faulty variant of sanitize_one: a single provider adds the token itself
sanitize_one_mutant_token(sanitized, name, system) ==
  LET providers_for_name == provided_by(system, name)
  IN  IF providers_for_name = <<>> THEN Exited
      ELSE IF Len(providers_for_name) = 1
      THEN [status |-> "ok", names |-> sanitized \cup {name}]
      ELSE LET dep_name == strip_versioning_from_name(name)
               providers_names == {providers_for_name[i].name : i \in 1..Len(providers_for_name)}
           IN  IF dep_name \in providers_names
               THEN [status |-> "ok", names |-> sanitized \cup {dep_name}]
               ELSE Exited

\* faulty variant of sanitize_one: several providers add the first one's name
sanitize_one_mutant_first(sanitized, name, system) ==
  LET providers_for_name == provided_by(system, name)
  IN  IF providers_for_name = <<>> THEN Exited
      ELSE IF Len(providers_for_name) = 1
      THEN [status |-> "ok", names |-> sanitized \cup {providers_for_name[1].name}]
      ELSE [status |-> "ok", names |-> sanitized \cup {providers_for_name[1].name}]

\* one iteration of the loop of sanitize_user_input
sanitize_one(sanitized, name, system) ==
  LET providers_for_name == provided_by(system, name)
  IN  IF providers_for_name = <<>> THEN Exited
      ELSE IF Len(providers_for_name) = 1
      THEN [status |-> "ok", names |-> sanitized \cup {providers_for_name[1].name}]
      ELSE LET dep_name == strip_versioning_from_name(name)
               providers_names == {providers_for_name[i].name : i \in 1..Len(providers_for_name)}
           IN  IF dep_name \in providers_names
               THEN [status |-> "ok", names |-> sanitized \cup {dep_name}]
               ELSE Exited

RECURSIVE sanitize_user_input(_, _)
sanitize_user_input(user_input, system) ==
  IF user_input = <<>> THEN [status |-> "ok", names |-> {}]
  ELSE LET before == sanitize_user_input(SubSeq(user_input, 1, Len(user_input) - 1), system)
       IN  IF before.status = "exit" THEN Exited
           ELSE sanitize_one(before.names, user_input[Len(user_input)], system)

\* list(set(...)): some order of the elements of a set
RECURSIVE SetToSeq(_)
SetToSeq(S) ==
  IF S = {} THEN <<>>
  ELSE LET x == CHOOSE y \in S : TRUE IN <<x>> \o SetToSeq(S \ {x})

----------------------------------------------------------------------------
(* The inputs of a run *)

\* every package of the official catalog provides v; r also provides a
ProvidesOf(name) == IF name = PkgA THEN {CapV} ELSE {CapV, PkgA}

Entity(name, version, variant, db) ==
  [name |-> name, version |-> version, variant |-> variant, db |-> db,
   provides |-> ProvidesOf(name)]

\* the subsets of S with at most k elements
RECURSIVE SubsetsUpTo(_, _)
SubsetsUpTo(S, k) ==
  IF k = 0 THEN {{}}
  ELSE LET smaller == SubsetsUpTo(S, k - 1)
       IN  smaller \cup {T \cup {x} : T \in smaller, x \in S}

OptSeqs(S) == {<<>>} \cup {<<e>> : e \in S}

\* System.get_installed_packages(): a at any version and of any variant that is
\* not the official catalog's, r at the lowest version
InstalledLists ==
  {x \o y :
     x \in OptSeqs({Entity(PkgA, v, k, "local") :
                      v \in Versions, k \in {"SourceBuild", "SourceBuildDevel", "LocalUnknown"}}),
     y \in OptSeqs({Entity(PkgR, 1, "Repo", "local")})}

\* System.get_repo_packages()
RepoLists == OptSeqs({Entity(PkgR, v, "Repo", "sync") : v \in Versions})

NotFound == [name |-> <<>>]

\* what the community catalog may answer for a name
FetchByName(name) ==
  IF name = PkgA
  THEN {NotFound} \cup {Entity(PkgA, v, "SourceBuild", "sync") : v \in Versions}
  ELSE {NotFound}

UserTokens == {PkgA, PkgR, CapV, <<"a", ">", "1">>}
TargetSets == SubsetsUpTo(UserTokens, MaxTargets)
HoldTokens == {PkgA, CapV}
HoldSets == SubsetsUpTo(HoldTokens, MaxHold)

\* members of the package groups
GroupMembers(group) == IF group = "base" THEN {PkgR} ELSE {}

IgnoreOptions == {<<{}, {}>>, <<{PkgA}, {}>>, <<{PkgR}, {}>>, <<{PkgA}, {"base"}>>}

\* Package.get_ignored_packages_names
get_ignored_packages_names(ignore, ignoregroup, system) ==
  ignore \cup {n \in DictKeys(system.all_packages_dict) :
                 \E g \in ignoregroup : n \in GroupMembers(g)}

----------------------------------------------------------------------------
(* process *)

NoSystem == [all_packages_dict |-> <<>>, provides_index |-> [c \in CapNames |-> <<>>]]

Init ==
  /\ pc = "parse"
  /\ exit_code = -1
  /\ packages_of_user_names = {}
  /\ sysupgrade = FALSE /\ needed = FALSE /\ only_unfulfilled_deps = TRUE
  /\ aur = FALSE /\ repo = FALSE
  /\ not_remove = {}
  /\ ignore_opt = {} /\ ignoregroup_opt = {}
  /\ heap = <<>>
  /\ installed_system = 0 /\ upstream_system = 0
  /\ sanitized_names = {} /\ sanitized_not_to_be_removed = {}
  /\ ignored_packages_names = {}
  /\ concrete_packages_to_install = <<>>
  /\ upstream_dict_before_ignore = <<>>
  /\ ignore_invoked = FALSE
  /\ solver_call = <<>> /\ validator_call = <<>>
  /\ printed = FALSE
  /\ raised = ""
  /\ su_input = <<>> /\ su_system = NoSystem /\ su_out = [status |-> "none", names |-> {}]

suVars == <<su_input, su_system, su_out>>

\* sys.exit(1), or an exception caught by main's bare except
Abort(exc) ==
  /\ pc' = "done"
  /\ exit_code' = 1
  /\ raised' = exc

\* process, lines 55-85: the options that decide whether there is anything to do
ParseArgs ==
  /\ pc = "parse"
  /\ \E sync \in BOOLEAN, T \in TargetSets, su \in BOOLEAN, a \in BOOLEAN, r \in BOOLEAN :
       IF ~sync
       THEN /\ Abort("SystemExit")
            /\ UNCHANGED <<packages_of_user_names, sysupgrade, aur, repo>>
       ELSE /\ packages_of_user_names' = T
            /\ sysupgrade' = su
            /\ aur' = a
            /\ repo' = r
            /\ IF (~su /\ T = {}) \/ (r /\ a)
               THEN Abort("SystemExit")
               ELSE pc' = "systems" /\ UNCHANGED <<exit_code, raised>>
  /\ UNCHANGED <<needed, only_unfulfilled_deps, not_remove, ignore_opt, ignoregroup_opt,
                 heap, installed_system, upstream_system, sanitized_names,
                 sanitized_not_to_be_removed, ignored_packages_names,
                 concrete_packages_to_install, upstream_dict_before_ignore,
                 ignore_invoked, solver_call, validator_call, printed, suVars>>

\* process, lines 87-99: the installed system and the upstream repo packages
BuildSystems ==
  /\ pc = "systems"
  /\ \E inst \in InstalledLists, rp \in RepoLists :
       /\ heap' = <<System(inst), IF ~aur THEN System(rp) ELSE System(<<>>)>>
       /\ (aur => rp = <<>>)
  /\ installed_system' = 1
  /\ upstream_system' = 2
  /\ pc' = "fetch"
  /\ UNCHANGED <<exit_code, raised, packages_of_user_names, sysupgrade, needed,
                 only_unfulfilled_deps, aur, repo, not_remove, ignore_opt, ignoregroup_opt,
                 sanitized_names, sanitized_not_to_be_removed, ignored_packages_names,
                 concrete_packages_to_install, upstream_dict_before_ignore,
                 ignore_invoked, solver_call, validator_call, printed, suVars>>

\* System.append_packages: inserts in place, keeping the index in step
append_packages(system, entities) ==
  [all_packages_dict |-> system.all_packages_dict \o entities,
   provides_index |->
     [c \in CapNames |->
        system.provides_index[c] \o SelectSeq(entities, LAMBDA e : c \in Provides(e))]]

\* the names append_packages_by_name has to fetch
names_to_fetch(system, packages_names) ==
  {strip_versioning_from_name(n) : n \in packages_names} \ DictKeys(system.all_packages_dict)

NamesOf(list) == {list[i].name : i \in 1..Len(list)}

names_of_installed_aur_packages ==
  NamesOf(aur_packages_list(heap[installed_system]))
    \cup NamesOf(devel_packages_list(heap[installed_system]))

\* process, lines 101-107: append_packages_by_name for the targets, then for the
\* installed community packages.  answer is the catalog's answer for PkgA, the
\* only name the catalog may know; a miss of a target either ends the run or is
\* skipped, a miss of an installed package's name is skipped.
FetchAur ==
  /\ pc = "fetch"
  /\ IF repo
     THEN /\ pc' = "sanitize"
          /\ UNCHANGED <<heap, exit_code, raised>>
     ELSE \E answer \in FetchByName(PkgA), fatal \in BOOLEAN :
            LET up == heap[upstream_system]
                user == names_to_fetch(up, packages_of_user_names)
                gotUser == IF PkgA \in user /\ answer # NotFound THEN <<answer>> ELSE <<>>
                missUser == user \ NamesOf(gotUser)
                up1 == append_packages(up, gotUser)
                inst == names_to_fetch(up1, names_of_installed_aur_packages)
                gotInst == IF PkgA \in inst /\ answer # NotFound THEN <<answer>> ELSE <<>>
                up2 == append_packages(up1, gotInst)
            IN  /\ (PkgA \notin user \cup inst => answer = NotFound)
                /\ (missUser = {} => ~fatal)
                /\ IF fatal
                   THEN /\ Abort("SystemExit")
                        /\ heap' = [heap EXCEPT ![upstream_system] = up1]
                   ELSE /\ heap' = [heap EXCEPT ![upstream_system] = up2]
                        /\ pc' = "sanitize"
                        /\ UNCHANGED <<exit_code, raised>>
  /\ UNCHANGED <<packages_of_user_names, sysupgrade, needed,
                 only_unfulfilled_deps, aur, repo, not_remove, ignore_opt, ignoregroup_opt,
                 installed_system, upstream_system,
                 sanitized_names, sanitized_not_to_be_removed, ignored_packages_names,
                 concrete_packages_to_install, upstream_dict_before_ignore,
                 ignore_invoked, solver_call, validator_call, printed, suVars>>

\* faulty variant of hold_unknown: the names are not looked up
hold_unknown_mutant_none(names, dict) == FALSE

\* lines 115-116: some name not to be removed is not known upstream
hold_unknown(names, dict) == \E name \in names : ~HasKey(dict, name)

\* process, lines 109-122: both inputs are sanitized, the names not to be removed
\* have to be known upstream and are added to the wanted names
Sanitize ==
  /\ pc = "sanitize"
  /\ \E H \in HoldSets :
       LET user == sanitize_user_input(SetToSeq(packages_of_user_names), heap[upstream_system])
           hold == sanitize_user_input(SetToSeq(H), heap[installed_system])
       IN  /\ not_remove' = H
           /\ IF user.status = "exit"
              THEN /\ Abort("SystemExit")
                   /\ UNCHANGED <<sanitized_names, sanitized_not_to_be_removed>>
              ELSE IF hold.status = "exit"
              THEN /\ Abort("SystemExit")
                   /\ sanitized_names' = user.names
                   /\ UNCHANGED sanitized_not_to_be_removed
              ELSE IF hold_unknown(hold.names, heap[upstream_system].all_packages_dict)
              THEN /\ Abort("SystemExit")
                   /\ sanitized_names' = user.names
                   /\ sanitized_not_to_be_removed' = hold.names
              ELSE /\ sanitized_names' = user.names \cup hold.names
                   /\ sanitized_not_to_be_removed' = hold.names
                   /\ pc' = "ignore"
                   /\ UNCHANGED <<exit_code, raised>>
  /\ UNCHANGED <<packages_of_user_names, sysupgrade, needed,
                 only_unfulfilled_deps, aur, repo, ignore_opt, ignoregroup_opt,
                 heap, installed_system, upstream_system, ignored_packages_names,
                 concrete_packages_to_install, upstream_dict_before_ignore,
                 ignore_invoked, solver_call, validator_call, printed, suVars>>

\* faulty variant of ignore_one: an ignored name is always deleted
ignore_one_mutant_delete(dict, installed_dict, ignored_packages_name) ==
  DictDel(dict, ignored_packages_name)

\* the body of the loop of lines 129-143 for one ignored name
ignore_one(dict, installed_dict, ignored_packages_name) ==
  IF HasKey(dict, ignored_packages_name)
  THEN IF HasKey(installed_dict, ignored_packages_name)
       THEN DictSet(dict, DictGet(installed_dict, ignored_packages_name))
       ELSE DictDel(dict, ignored_packages_name)
  ELSE dict

RECURSIVE ignore_loop(_, _, _)
ignore_loop(dict, installed_dict, names) ==
  IF names = <<>> THEN dict
  ELSE ignore_loop(ignore_one(dict, installed_dict, Head(names)), installed_dict, Tail(names))

\* faulty variant of effective_ignored: typed in names stay ignored
effective_ignored_mutant_all(ignored, sanitized) == ignored

\* line 128: explicitly typed in names will not be ignored
effective_ignored(ignored, sanitized) == ignored \ sanitized

\* process, lines 124-143: the ignored names are replaced or deleted in
\* upstream_system.all_packages_dict, in place
IgnoreHandling ==
  /\ pc = "ignore"
  /\ \E opt \in IgnoreOptions :
       LET up == heap[upstream_system]
           ignored == effective_ignored(
                        get_ignored_packages_names(opt[1], opt[2], up), sanitized_names)
       IN  /\ ignore_opt' = opt[1]
           /\ ignoregroup_opt' = opt[2]
           /\ ignored_packages_names' = ignored
           /\ upstream_dict_before_ignore' = up.all_packages_dict
           /\ heap' = [heap EXCEPT ![upstream_system].all_packages_dict =
                         ignore_loop(up.all_packages_dict,
                                     heap[installed_system].all_packages_dict,
                                     SetToSeq(ignored))]
  /\ ignore_invoked' = TRUE
  /\ pc' = "recreate"
  /\ UNCHANGED <<exit_code, raised, packages_of_user_names, sysupgrade, needed,
                 only_unfulfilled_deps, aur, repo, not_remove,
                 installed_system, upstream_system, sanitized_names,
                 sanitized_not_to_be_removed, concrete_packages_to_install,
                 solver_call, validator_call, printed, suVars>>

\* faulty variant of recreate: the existing object is rebuilt in place
recreate_mutant_in_place(h, up, ignored) ==
  IF ignored # {}
  THEN [heap |-> [h EXCEPT ![up] = System(h[up].all_packages_dict)], upstream_system |-> up]
  ELSE [heap |-> h, upstream_system |-> up]

\* lines 146-147: a new System object, bound to upstream_system
recreate(h, up, ignored) ==
  IF ignored # {}
  THEN [heap |-> Append(h, System(h[up].all_packages_dict)), upstream_system |-> Len(h) + 1]
  ELSE [heap |-> h, upstream_system |-> up]

\* process, lines 145-147: a new System from the values of the edited dict
RecreateUpstream ==
  /\ pc = "recreate"
  /\ LET new == recreate(heap, upstream_system, ignored_packages_names)
     IN  /\ heap' = new.heap
         /\ upstream_system' = new.upstream_system
  /\ pc' = "select"
  /\ UNCHANGED <<exit_code, raised, packages_of_user_names, sysupgrade, needed,
                 only_unfulfilled_deps, aur, repo, not_remove, ignore_opt, ignoregroup_opt,
                 installed_system, sanitized_names, sanitized_not_to_be_removed,
                 ignored_packages_names, concrete_packages_to_install,
                 upstream_dict_before_ignore, ignore_invoked,
                 solver_call, validator_call, printed, suVars>>

\* faulty variant of needed_keeps: an equal version is kept
needed_keeps_mutant_le(installed_dict, package) ==
  IF HasKey(installed_dict, package.name)
  THEN version_comparison(DictGet(installed_dict, package.name).version, "<=", package.version)
  ELSE TRUE

\* line 158 with its else branch: whether --needed keeps a possible package
needed_keeps(installed_dict, package) ==
  IF HasKey(installed_dict, package.name)
  THEN version_comparison(DictGet(installed_dict, package.name).version, "<", package.version)
  ELSE TRUE

\* lines 150-161
select_packages(need, possible_packages, installed_dict) ==
  IF ~need THEN possible_packages
  ELSE SelectSeq(possible_packages, LAMBDA package : needed_keeps(installed_dict, package))

\* process, lines 149-161: the packages to install; a name missing from the dict
\* is a KeyError
SelectTargets ==
  /\ pc = "select"
  /\ \E need \in BOOLEAN :
       LET dict == heap[upstream_system].all_packages_dict
           names == SetToSeq(sanitized_names)
       IN  /\ needed' = need
           /\ IF \E i \in 1..Len(names) : ~HasKey(dict, names[i])
              THEN /\ Abort("KeyError")
                   /\ UNCHANGED concrete_packages_to_install
              ELSE /\ concrete_packages_to_install' =
                        select_packages(need,
                                        [i \in 1..Len(names) |-> DictGet(dict, names[i])],
                                        heap[installed_system].all_packages_dict)
                   /\ pc' = "sysupgrade"
                   /\ UNCHANGED <<exit_code, raised>>
  /\ UNCHANGED <<packages_of_user_names, sysupgrade,
                 only_unfulfilled_deps, aur, repo, not_remove, ignore_opt, ignoregroup_opt,
                 heap, installed_system, upstream_system, sanitized_names,
                 sanitized_not_to_be_removed, ignored_packages_names,
                 upstream_dict_before_ignore, ignore_invoked,
                 solver_call, validator_call, printed, suVars>>

\* faulty variant of fold_one: no look-up in the packages to install
fold_one_mutant_dup(concrete, dict, package) ==
  LET upstream_package == DictGet(dict, package.name)
  IN  IF version_comparison(upstream_package.version, ">", package.version)
      THEN Append(concrete, upstream_package)
      ELSE concrete

\* lines 170-173 for one installed community package
fold_one(concrete, dict, package) ==
  LET upstream_package == DictGet(dict, package.name)
  IN  IF /\ version_comparison(upstream_package.version, ">", package.version)
         /\ ~PackageIn(upstream_package, concrete)
      THEN Append(concrete, upstream_package)
      ELSE concrete

RECURSIVE fold_loop(_, _, _)
fold_loop(concrete, dict, packages) ==
  IF packages = <<>> THEN concrete
  ELSE fold_loop(fold_one(concrete, dict, Head(packages)), dict, Tail(packages))

\* line 164
folds(su, rp) == su /\ ~rp

\* process, lines 163-173: the installed community packages with a newer
\* upstream version are added; the assertion of line 169 may fail
Sysupgrade ==
  /\ pc = "sysupgrade"
  /\ LET dict == heap[upstream_system].all_packages_dict
         installed_aur_packages ==
           aur_packages_list(heap[installed_system])
             \o devel_packages_list(heap[installed_system])
     IN  IF ~folds(sysupgrade, repo)
         THEN /\ pc' = "solve"
              /\ UNCHANGED <<concrete_packages_to_install, exit_code, raised>>
         ELSE IF \E i \in 1..Len(installed_aur_packages) :
                   ~HasKey(dict, installed_aur_packages[i].name)
         THEN /\ Abort("AssertionError")
              /\ UNCHANGED concrete_packages_to_install
         ELSE /\ concrete_packages_to_install' =
                   fold_loop(concrete_packages_to_install, dict, installed_aur_packages)
              /\ pc' = "solve"
              /\ UNCHANGED <<exit_code, raised>>
  /\ UNCHANGED <<packages_of_user_names, sysupgrade, needed,
                 only_unfulfilled_deps, aur, repo, not_remove, ignore_opt, ignoregroup_opt,
                 heap, installed_system, upstream_system, sanitized_names,
                 sanitized_not_to_be_removed, ignored_packages_names,
                 upstream_dict_before_ignore, ignore_invoked,
                 solver_call, validator_call, printed, suVars>>

\* process, lines 175-179: Package.dep_solving is called with the packages to
\* install, the installed system or an empty one, and the upstream system
Solve ==
  /\ pc = "solve"
  /\ \E deep_search \in BOOLEAN :
       /\ only_unfulfilled_deps' = ~deep_search
       /\ IF ~deep_search
          THEN /\ solver_call' = <<[targets |-> concrete_packages_to_install,
                                    base |-> installed_system,
                                    universe |-> upstream_system]>>
               /\ UNCHANGED heap
          ELSE /\ heap' = Append(heap, System(<<>>))
               /\ solver_call' = <<[targets |-> concrete_packages_to_install,
                                    base |-> Len(heap) + 1,
                                    universe |-> upstream_system]>>
  /\ pc' = "validate"
  /\ UNCHANGED <<exit_code, raised, packages_of_user_names, sysupgrade, needed,
                 aur, repo, not_remove, ignore_opt, ignoregroup_opt,
                 installed_system, upstream_system, sanitized_names,
                 sanitized_not_to_be_removed, ignored_packages_names,
                 concrete_packages_to_install, upstream_dict_before_ignore,
                 ignore_invoked, validator_call, printed, suVars>>

\* process, lines 181-189: validate_solutions is called with the packages to
\* install; without a valid solution the run ends with 1, else the list is printed
Validate ==
  /\ pc = "validate"
  /\ validator_call' = <<[targets |-> concrete_packages_to_install]>>
  /\ \E some_valid \in BOOLEAN :
       IF ~some_valid
       THEN Abort("SystemExit") /\ UNCHANGED printed
       ELSE /\ printed' = TRUE
            /\ exit_code' = 0
            /\ pc' = "done"
            /\ UNCHANGED raised
  /\ UNCHANGED <<packages_of_user_names, sysupgrade, needed,
                 only_unfulfilled_deps, aur, repo, not_remove, ignore_opt, ignoregroup_opt,
                 heap, installed_system, upstream_system, sanitized_names,
                 sanitized_not_to_be_removed, ignored_packages_names,
                 concrete_packages_to_install, upstream_dict_before_ignore,
                 ignore_invoked, solver_call, suVars>>

Next ==
  \/ ParseArgs
  \/ BuildSystems
  \/ FetchAur
  \/ Sanitize
  \/ IgnoreHandling
  \/ RecreateUpstream
  \/ SelectTargets
  \/ Sysupgrade
  \/ Solve
  \/ Validate

Spec == Init /\ [][Next]_vars

----------------------------------------------------------------------------
(* A stand-alone call of sanitize_user_input on any system and any input *)

SanEntities ==
  {[name |-> n, version |-> v, variant |-> "Repo", db |-> "sync", provides |-> P] :
     n \in {PkgA}, v \in Versions, P \in SUBSET {CapV}}
  \cup
  {[name |-> n, version |-> v, variant |-> "Repo", db |-> "sync", provides |-> P] :
     n \in {PkgR}, v \in Versions, P \in SUBSET {CapV, PkgA}}

SanSystems ==
  UNION {{System(x \o y), System(y \o x)} :
     x \in OptSeqs({e \in SanEntities : e.name = PkgA}),
     y \in OptSeqs({e \in SanEntities : e.name = PkgR})}

SanTokens ==
  {PkgA, CapV, PkgR}
  \cup {<<n[1], c, VersionLexemes[v]>> : n \in {PkgA, CapV}, c \in Comparators, v \in Versions}

SanInputs == {SetToSeq(T) : T \in SubsetsUpTo(SanTokens, MaxInput)}

NotCalled == [status |-> "none", names |-> {}]

SanInit ==
  /\ pc = "off"
  /\ exit_code = -1
  /\ packages_of_user_names = {}
  /\ sysupgrade = FALSE /\ needed = FALSE /\ only_unfulfilled_deps = TRUE
  /\ aur = FALSE /\ repo = FALSE
  /\ not_remove = {}
  /\ ignore_opt = {} /\ ignoregroup_opt = {}
  /\ heap = <<>>
  /\ installed_system = 0 /\ upstream_system = 0
  /\ sanitized_names = {} /\ sanitized_not_to_be_removed = {}
  /\ ignored_packages_names = {}
  /\ concrete_packages_to_install = <<>>
  /\ upstream_dict_before_ignore = <<>>
  /\ ignore_invoked = FALSE
  /\ solver_call = <<>> /\ validator_call = <<>>
  /\ printed = FALSE
  /\ raised = ""
  /\ su_input \in SanInputs
  /\ su_system \in SanSystems
  /\ su_out = NotCalled

\* sanitize_user_input(su_input, su_system)
SanitizeCall ==
  /\ su_out = NotCalled
  /\ su_out' = sanitize_user_input(su_input, su_system)
  /\ UNCHANGED <<su_input, su_system, procVars>>

SanNext == SanitizeCall

SpecSanitize == SanInit /\ [][SanNext]_vars

SanTokensOfInput == {su_input[i] : i \in 1..Len(su_input)}

SanProviders(t) == provided_by(su_system, t)

SanProviderNames(t) == NamesOf(SanProviders(t))

SanAmbiguous(t) ==
  Len(SanProviders(t)) > 1 /\ strip_versioning_from_name(t) \notin SanProviderNames(t)

SanAnswerable(t) == SanProviders(t) # <<>> /\ ~SanAmbiguous(t)

\* C1: after a successful call, every token with exactly one provider has put
\* that provider's own name into the result, and no version-qualified token
\* is itself in the result.
C1_SingleProviderName ==
  su_out.status = "ok" =>
    \A t \in SanTokensOfInput :
      /\ Len(SanProviders(t)) = 1 => SanProviders(t)[1].name \in su_out.names
      /\ Len(t) > 1 => t \notin su_out.names

\* a version-qualified token of a capability with one provider named otherwise
C1_Witness ==
  /\ su_out.status = "ok"
  /\ \E t \in SanTokensOfInput :
       /\ Len(t) = 3
       /\ Len(SanProviders(t)) = 1
       /\ SanProviders(t)[1].name # strip_versioning_from_name(t)
       /\ SanProviders(t)[1].name \in su_out.names

\* C2: a token with more than one provider none of which has the bare name makes
\* the call exit without a name set; when every token of the input is answerable
\* the call succeeds, and a token with more than one provider contributes its
\* bare name.
C2_MultipleProviders ==
  su_out # NotCalled =>
    /\ (\E t \in SanTokensOfInput : SanAmbiguous(t)) => su_out = Exited
    /\ (\A t \in SanTokensOfInput : SanAnswerable(t)) =>
         /\ su_out.status = "ok"
         /\ \A t \in SanTokensOfInput :
              Len(SanProviders(t)) > 1 => strip_versioning_from_name(t) \in su_out.names
    /\ su_out.status = "ok" => \A t \in SanTokensOfInput : SanAnswerable(t)

\* two providers, the first of them named otherwise than the token
C2_Witness ==
  /\ su_out.status = "ok"
  /\ \E t \in SanTokensOfInput :
       /\ Len(SanProviders(t)) > 1
       /\ SanProviders(t)[1].name # strip_versioning_from_name(t)
       /\ strip_versioning_from_name(t) \in su_out.names

----------------------------------------------------------------------------
(* Claims about process *)

InstalledDict == heap[installed_system].all_packages_dict

\* the upstream System object that the targets were sanitized against
SanitizedAgainst == heap[2]

\* its all_packages_dict as it was when the inputs were sanitized
UpstreamDictAtSanitize ==
  IF ignore_invoked THEN upstream_dict_before_ignore ELSE SanitizedAgainst.all_packages_dict

Unanswerable(system, t) ==
  LET providers == provided_by(system, t)
  IN  \/ providers = <<>>
      \/ Len(providers) > 1 /\ strip_versioning_from_name(t) \notin NamesOf(providers)

BadRequest ==
  \/ \E t \in packages_of_user_names : Unanswerable(SanitizedAgainst, t)
  \/ \E t \in not_remove : Unanswerable(heap[installed_system], t)
  \/ \E n \in sanitize_user_input(SetToSeq(not_remove), heap[installed_system]).names :
       ~HasKey(UpstreamDictAtSanitize, n)

\* C3: once the inputs have been sanitized, a run whose target or holdpkg tokens
\* are unanswerable, or whose holdpkg names are unknown upstream, has ended with
\* status 1 without ignore handling, solver, validator or print.
C3_BadRequestAborts ==
  (upstream_system # 0 /\ pc \notin {"fetch", "sanitize"} /\ BadRequest) =>
    /\ pc = "done"
    /\ exit_code = 1
    /\ ~ignore_invoked
    /\ solver_call = <<>>
    /\ validator_call = <<>>
    /\ ~printed

\* answerable tokens, but a holdpkg name that upstream does not know
C3_Witness ==
  /\ pc = "done" /\ exit_code = 1 /\ upstream_system # 0
  /\ packages_of_user_names # {}
  /\ \A t \in packages_of_user_names : ~Unanswerable(SanitizedAgainst, t)
  /\ not_remove # {}
  /\ \A t \in not_remove : ~Unanswerable(heap[installed_system], t)
  /\ \E n \in sanitized_not_to_be_removed : ~HasKey(UpstreamDictAtSanitize, n)

SolverTargets == solver_call[1].targets

SolverUniverse == heap[solver_call[1].universe].all_packages_dict

Occurrences(list, name) == Cardinality({i \in 1..Len(list) : list[i].name = name})

\* C4: every canonicalized holdpkg name is among the targets passed to the solver
\* and to the validator.
C4_HoldpkgAmongTargets ==
  /\ solver_call # <<>> => sanitized_not_to_be_removed \subseteq NamesOf(SolverTargets)
  /\ validator_call # <<>> =>
       sanitized_not_to_be_removed \subseteq NamesOf(validator_call[1].targets)

OptionIgnored ==
  get_ignored_packages_names(ignore_opt, ignoregroup_opt,
                             [all_packages_dict |-> upstream_dict_before_ignore])

EffectiveIgnored == OptionIgnored \ sanitized_names

\* C5: a name that the ignore options produce and that is also a canonicalized
\* target or holdpkg name keeps its upstream entry through the ignore handling,
\* and a target passed to the solver under that name is that upstream entity.
C5_ExplicitWins ==
  (ignore_invoked /\ pc # "recreate") =>
    \A n \in OptionIgnored \cap sanitized_names :
      /\ HasKey(upstream_dict_before_ignore, n)
      /\ HasKey(heap[upstream_system].all_packages_dict, n)
      /\ DictGet(heap[upstream_system].all_packages_dict, n)
           = DictGet(upstream_dict_before_ignore, n)
      /\ solver_call # <<>> =>
           \A i \in 1..Len(SolverTargets) :
             SolverTargets[i].name = n =>
               /\ SolverTargets[i] = DictGet(upstream_dict_before_ignore, n)
               /\ SolverTargets[i].db = "sync"

\* an ignored and requested name, installed at another version, passed as target
C5_Witness ==
  /\ solver_call # <<>>
  /\ \E n \in OptionIgnored \cap sanitized_names :
       /\ HasKey(InstalledDict, n)
       /\ DictGet(InstalledDict, n).version # DictGet(upstream_dict_before_ignore, n).version
       /\ n \in NamesOf(SolverTargets)

\* C6: in the universe handed to the solver an effectively ignored name known
\* upstream maps to the installed entity if it is installed and is absent if it
\* is not; every other name maps to what it mapped to before the ignore handling.
C6_IgnoreEffect ==
  solver_call # <<>> =>
    \A n \in CapNames :
      IF n \in EffectiveIgnored /\ HasKey(upstream_dict_before_ignore, n)
      THEN IF HasKey(InstalledDict, n)
           THEN /\ HasKey(SolverUniverse, n)
                /\ DictGet(SolverUniverse, n) = DictGet(InstalledDict, n)
           ELSE ~HasKey(SolverUniverse, n)
      ELSE /\ HasKey(SolverUniverse, n) <=> HasKey(upstream_dict_before_ignore, n)
           /\ HasKey(SolverUniverse, n) =>
                DictGet(SolverUniverse, n) = DictGet(upstream_dict_before_ignore, n)

\* one ignored name frozen at its installed version, another one kept
C6_Witness ==
  /\ solver_call # <<>>
  /\ \E n \in EffectiveIgnored :
       /\ HasKey(upstream_dict_before_ignore, n)
       /\ HasKey(InstalledDict, n)
       /\ DictGet(upstream_dict_before_ignore, n).version # DictGet(InstalledDict, n).version
       /\ DictGet(SolverUniverse, n).db = "local"
  /\ \E n \in DictKeys(SolverUniverse) : n \notin EffectiveIgnored

\* C7: with needed a canonicalized target is passed to the solver exactly when it
\* is not installed or installed at a strictly lower version than upstream;
\* without needed every canonicalized target is passed.
C7_Needed ==
  solver_call # <<>> =>
    \A n \in sanitized_names :
      IF needed
      THEN n \in NamesOf(SolverTargets) <=>
             \/ ~HasKey(InstalledDict, n)
             \/ DictGet(InstalledDict, n).version < DictGet(SolverUniverse, n).version
      ELSE n \in NamesOf(SolverTargets)

\* with needed, one target skipped and one installed target passed
C7_Witness ==
  /\ solver_call # <<>> /\ needed
  /\ \E n \in sanitized_names : n \notin NamesOf(SolverTargets)
  /\ \E n \in sanitized_names : n \in NamesOf(SolverTargets) /\ HasKey(InstalledDict, n)

Newer(e) ==
  /\ HasKey(SolverUniverse, e.name)
  /\ DictGet(SolverUniverse, e.name).version > e.version

InstalledOf(variants) ==
  {InstalledDict[i] : i \in {k \in 1..Len(InstalledDict) : InstalledDict[k].variant \in variants}}

\* C8 as stated: with sysupgrade every installed package tracked by the official
\* or the community catalog with a newer upstream version is among the targets
\* passed to the solver, once.
C8_AllCatalogsFolded ==
  (solver_call # <<>> /\ sysupgrade) =>
    \A e \in InstalledOf({"Repo", "SourceBuild", "SourceBuildDevel"}) :
      Newer(e) => Occurrences(SolverTargets, e.name) = 1

\* C8 as amended: with sysupgrade and without repo, every installed community
\* package whose version in the universe handed to the solver is newer than the
\* installed one is among the targets passed to the solver, once.
C8_CommunityFolded ==
  (solver_call # <<>> /\ sysupgrade /\ ~repo) =>
    \A e \in InstalledOf({"SourceBuild", "SourceBuildDevel"}) :
      Newer(e) => Occurrences(SolverTargets, e.name) = 1

\* an installed community package that is no target of the user, folded in
C8_Witness ==
  /\ solver_call # <<>> /\ sysupgrade /\ ~repo
  /\ packages_of_user_names # {}
  /\ \E e \in InstalledOf({"SourceBuild", "SourceBuildDevel"}) :
       /\ Newer(e)
       /\ e.name \notin sanitized_names
       /\ Occurrences(SolverTargets, e.name) = 1

DictsUnchanged(S) ==
  \A i \in S : heap'[i].all_packages_dict = heap[i].all_packages_dict

\* C9 as stated: the name mapping of a constructed universe is never changed by
\* a later step.
C9_NeverEdited == [][DictsUnchanged(1..Len(heap))]_vars

\* C9 as amended: the installed universe is never edited; the upstream universe
\* is edited in place only by the appending of fetched packages and by the
\* ignore handling, and when a name was effectively ignored the step after the
\* ignore handling binds upstream_system to a new instance.
C9_EditedThenRebuilt ==
  [][/\ installed_system # 0 => DictsUnchanged({installed_system})
     /\ pc \notin {"fetch", "ignore"} => DictsUnchanged(1..Len(heap))
     /\ (pc = "recreate" /\ ignored_packages_names # {}) =>
          /\ upstream_system' = Len(heap) + 1
          /\ Len(heap') = Len(heap) + 1]_vars

\* the ignore handling has edited the old instance, and a new one is in use
C9_Witness ==
  /\ ignore_invoked
  /\ upstream_system = 3
  /\ heap[2].all_packages_dict # upstream_dict_before_ignore
  /\ heap[3].all_packages_dict = heap[2].all_packages_dict

\* C10: the assertion of the sysupgrade step never fails.
C10_AssertionHolds == raised # "AssertionError"

====
